---- MODULE Spec2Model ----
(***************************************************************************)
(* Model of the odds aggregation and ranking engine of app.py:             *)
(* FootballIntelligence.get_matches_with_odds, analyze_match and           *)
(* find_best_bets.                                                         *)
(*                                                                         *)
(* Prices and target prices are decimal odds with two decimals, held as    *)
(* integers in hundredths (2.05 is 205).  A JSON value that is not a       *)
(* number is kept as such, and a dictionary key may be missing.            *)
(***************************************************************************)
EXTENDS Integers, Sequences, FiniteSets, TLC

VARIABLES
    pc,           \* position of the running call
    match,        \* analyze_match: the fixture's team fields (keys may be missing)
    quotes,       \* analyze_match: the outcome lines of the fixture read so far
    target_odds,  \* the target_odds argument
    best_odds,    \* analyze_match: the local best_odds
    leagues,      \* find_best_bets: the leagues argument
    league_i,     \* find_best_bets: number of leagues already iterated
    fetched,      \* find_best_bets: what the odds API answered, one entry per league
    matches,      \* find_best_bets: the local matches of the current league
    analyzed,     \* find_best_bets: the fixtures handed to analyze_match, per league
    all_picks,    \* find_best_bets: the local all_picks
    result        \* the value returned: <<>> is None, <<a>> an analysis, or the list

vars == <<pc, match, quotes, target_odds, best_odds, leagues, league_i, fetched,
          matches, analyzed, all_picks, result>>

-----------------------------------------------------------------------------
(* Bounds of the model *)

\* outcome lines one fixture may carry in the stepwise analysis
MaxLines == 3
\* fixtures the odds API may return in total during one find_best_bets call
MaxFetched == 6

(* Program constants *)

BandLow == 180
BandHigh == 220
ShortPrice == 205
BaseConfidence == 50
ShortPriceBonus == 10
HomeBonus == 5
MaxConfidence == 85
FixtureCap == 5

-----------------------------------------------------------------------------
(* JSON values and dictionaries *)

Number(c) == [type |-> "number", value |-> c]
Text == [type |-> "string", value |-> 0]

\* dict.get(key, default)
Get(d, k, default) == IF k \in DOMAIN d THEN d[k] ELSE default

\* outcome.get('name') where the key is missing
NoName == "None"

\* Python's max(a, b) on two numbers
PyMax(a, b) == IF b > a THEN b ELSE a

Min(a, b) == IF a < b THEN a ELSE b

-----------------------------------------------------------------------------
(* analyze_match: the pieces *)

Home(m) == Get(m, "home_team", "Unknown")
Away(m) == Get(m, "away_team", "Unknown")

ZeroOdds == [home |-> 0, draw |-> 0, away |-> 0]

Name(outcome) == Get(outcome, "name", NoName)
Price(outcome) == Get(outcome, "price", Number(0))

\* max(best_odds[...], price) raises TypeError unless price is a number
FoldRaises(outcome) == Price(outcome).type # "number"

\* a variant that takes the literal name Draw for the draw and the rest for away
SlotOfByDrawName(name, home, away) ==
    IF name = home THEN "home" ELSE IF name = "Draw" THEN "draw" ELSE "away"

SlotOf(name, home, away) ==
    IF name = home THEN "home" ELSE IF name = away THEN "away" ELSE "draw"

\* a variant where the last quote wins
FoldOutcomeLastWins(best, home, away, outcome) ==
    LET slot == SlotOf(Name(outcome), home, away)
    IN  [best EXCEPT ![slot] = Price(outcome).value]

\* the body of the innermost loop, for a numeric price
FoldOutcome(best, home, away, outcome) ==
    LET slot == SlotOf(Name(outcome), home, away)
    IN  [best EXCEPT ![slot] = PyMax(@, Price(outcome).value)]

\* a variant whose band ends at 2.21
InBandWide(odd) == BandLow <= odd /\ odd <= BandHigh + 1

InBand(odd) == BandLow <= odd /\ odd <= BandHigh

\* a variant that gives the short-price bonus at 2.05 as well
ConfidenceInclusive(outcome, odd) ==
    Min(BaseConfidence
          + (IF odd <= ShortPrice THEN ShortPriceBonus ELSE 0)
          + (IF outcome = "home" THEN HomeBonus ELSE 0),
        MaxConfidence)

Confidence(outcome, odd) ==
    Min(BaseConfidence
          + (IF odd < ShortPrice THEN ShortPriceBonus ELSE 0)
          + (IF outcome = "home" THEN HomeBonus ELSE 0),
        MaxConfidence)

\* str.upper() on the three keys of best_odds
Upper(outcome) ==
    CASE outcome = "home" -> "HOME"
      [] outcome = "draw" -> "DRAW"
      [] outcome = "away" -> "AWAY"

\* best_odds.items() iterates in insertion order
SlotOrder == <<"home", "draw", "away">>

PickOf(outcome, odd) ==
    [pick |-> Upper(outcome), odds |-> odd, confidence |-> Confidence(outcome, odd)]

Picks(best) ==
    LET all == [i \in 1..3 |-> PickOf(SlotOrder[i], best[SlotOrder[i]])]
        Accepted(p) == InBand(p.odds)
    IN  SelectSeq(all, Accepted)

(* abs(x['odds'] - target_odds) on IEEE doubles.  The double nearest to     *)
(* c/100 differs from c/100 by BinaryError(c) units of 2^-52/25; the        *)
(* subtraction of two doubles within a factor two of each other is exact,   *)
(* so the key is |c - t|/100 plus the signed difference of the two errors.  *)
BinaryError(c) ==
    IF c < 200
    THEN LET r == (24 * c) % 25 IN IF r <= 12 THEN 0 - r ELSE 25 - r
    ELSE LET r == (12 * c) % 25 IN IF r <= 12 THEN 0 - 2 * r ELSE 2 * (25 - r)

Distance(odd, target) ==
    IF odd = target THEN <<0, 0>>
    ELSE IF odd > target
         THEN <<odd - target, BinaryError(odd) - BinaryError(target)>>
         ELSE <<target - odd, BinaryError(target) - BinaryError(odd)>>

Closer(k1, k2) == k1[1] < k2[1] \/ (k1[1] = k2[1] /\ k1[2] < k2[2])

\* list.sort(key=...) is stable: x goes before the first element it is closer than
RECURSIVE InsertByDistance(_, _, _)
InsertByDistance(x, s, target) ==
    IF s = <<>> THEN <<x>>
    ELSE IF Closer(Distance(x.odds, target), Distance(Head(s).odds, target))
         THEN <<x>> \o s
         ELSE <<Head(s)>> \o InsertByDistance(x, Tail(s), target)

\* a variant that leaves the picks in slot order
SortByDistanceSkipped(s, target) == s

RECURSIVE SortByDistance(_, _)
SortByDistance(s, target) ==
    IF s = <<>> THEN <<>>
    ELSE InsertByDistance(s[Len(s)], SortByDistance(SubSeq(s, 1, Len(s) - 1), target),
                          target)

\* f"{home} vs {away}"
Label(home, away) == <<home, " vs ", away>>

\* a variant that accepts the prices within 0.20 of the target
SelectAroundTarget(m, best, target) ==
    LET all == [i \in 1..3 |-> PickOf(SlotOrder[i], best[SlotOrder[i]])]
        Accepted(p) == target - 20 <= p.odds /\ p.odds <= target + 20
        picks == SelectSeq(all, Accepted)
    IN  IF picks = <<>> THEN <<>>
        ELSE << [match |-> Label(Home(m), Away(m)),
                 commence_time |-> Get(m, "commence_time", "Unknown"),
                 odds |-> best,
                 recommendation |-> SortByDistance(picks, target)[1]] >>

\* lines 86-112: None as <<>>, an analysis as a one-element sequence
Select(m, best, target) ==
    LET picks == Picks(best)
    IN  IF picks = <<>> THEN <<>>
        ELSE << [match |-> Label(Home(m), Away(m)),
                 commence_time |-> Get(m, "commence_time", "Unknown"),
                 odds |-> best,
                 recommendation |-> SortByDistance(picks, target)[1]] >>

-----------------------------------------------------------------------------
(* Inputs of the stepwise analysis of one fixture *)

Targets == {200, 210}

\* the fixture's scalar fields; home_team may be missing
MatchHeads ==
    { [home_team |-> "Arsenal", away_team |-> "Chelsea", commence_time |-> "t0"],
      [away_team |-> "Chelsea", commence_time |-> "t0"] }

OutcomeNames == {"Arsenal", "Chelsea", "Draw"}

PriceValues == {Number(c) : c \in {179, 180, 204, 205, 220, 221}} \cup {Text}

\* an outcome line of an h2h market; the price key may be missing
Outcomes ==
    {[name |-> n, price |-> p] : n \in OutcomeNames, p \in PriceValues}
      \cup {[name |-> n] : n \in OutcomeNames}

\* outcome lines of markets with another key
OtherLines ==
    { [key |-> "spreads", outcome |-> [name |-> "Arsenal", price |-> Number(190)]],
      [key |-> "totals", outcome |-> [name |-> "Over", price |-> Number(190)]] }

Idle ==
    /\ leagues = <<>>
    /\ league_i = 0
    /\ fetched = <<>>
    /\ matches = <<>>
    /\ analyzed = <<>>
    /\ all_picks = <<>>

InitAnalyze ==
    /\ pc = "call"
    /\ match \in MatchHeads
    /\ target_odds \in Targets
    /\ quotes = {}
    /\ best_odds = ZeroOdds
    /\ result = <<>>
    /\ Idle

RankVars == <<leagues, league_i, fetched, matches, analyzed, all_picks>>

\* lines 64-66: bookmakers is missing or empty
NoBookmakers ==
    /\ pc = "call"
    /\ pc' = "returned"
    /\ result' = <<>>
    /\ UNCHANGED <<match, quotes, target_odds, best_odds, RankVars>>

\* lines 64-71: the loop enters its first bookmaker
FirstBookmaker ==
    /\ pc = "call"
    /\ pc' = "markets"
    /\ best_odds' = ZeroOdds
    /\ UNCHANGED <<match, quotes, target_odds, result, RankVars>>

\* lines 72-74: the next market of the bookmaker has key h2h
H2HMarket ==
    /\ pc = "markets"
    /\ pc' = "outcomes"
    /\ UNCHANGED <<match, quotes, target_odds, best_odds, result, RankVars>>

\* lines 72-73: the next market has another key; its lines are not read
OtherMarket ==
    /\ pc = "markets"
    /\ \E line \in OtherLines :
         /\ Cardinality(quotes \cup {line}) <= MaxLines
         /\ quotes' = quotes \cup {line}
    /\ UNCHANGED <<pc, match, target_odds, best_odds, result, RankVars>>

\* line 72: the bookmaker has no further market
EndMarkets ==
    /\ pc = "markets"
    /\ pc' = "bookmakers"
    /\ UNCHANGED <<match, quotes, target_odds, best_odds, result, RankVars>>

\* lines 74-83: the next outcome line of the h2h market
NextOutcome ==
    /\ pc = "outcomes"
    /\ \E o \in Outcomes :
         LET line == [key |-> "h2h", outcome |-> o]
         IN  /\ Cardinality(quotes \cup {line}) <= MaxLines
             /\ quotes' = quotes \cup {line}
             /\ IF FoldRaises(o)
                THEN /\ pc' = "raised"
                     /\ UNCHANGED best_odds
                ELSE /\ pc' = pc
                     /\ best_odds' = FoldOutcome(best_odds, Home(match), Away(match), o)
    /\ UNCHANGED <<match, target_odds, result, RankVars>>

\* line 74: the market has no further outcome
EndOutcomes ==
    /\ pc = "outcomes"
    /\ pc' = "markets"
    /\ UNCHANGED <<match, quotes, target_odds, best_odds, result, RankVars>>

\* line 70: another bookmaker follows
NextBookmaker ==
    /\ pc = "bookmakers"
    /\ pc' = "markets"
    /\ UNCHANGED <<match, quotes, target_odds, best_odds, result, RankVars>>

\* lines 86-112: the loop is over
SelectPick ==
    /\ pc = "bookmakers"
    /\ pc' = "returned"
    /\ result' = Select(match, best_odds, target_odds)
    /\ UNCHANGED <<match, quotes, target_odds, best_odds, RankVars>>

NextAnalyze ==
    \/ NoBookmakers
    \/ FirstBookmaker
    \/ H2HMarket
    \/ OtherMarket
    \/ EndMarkets
    \/ NextOutcome
    \/ EndOutcomes
    \/ NextBookmaker
    \/ SelectPick

SpecAnalyze == InitAnalyze /\ [][NextAnalyze]_vars

-----------------------------------------------------------------------------
(* analyze_match on a whole fixture, as find_best_bets calls it *)

\* the outcome loop, lines 74-83; the fold stops at the first TypeError
RECURSIVE FoldOutcomes(_, _, _, _)
FoldOutcomes(acc, home, away, outcomes) ==
    IF acc.raised \/ outcomes = <<>> THEN acc
    ELSE LET o == Head(outcomes)
             next == IF FoldRaises(o)
                     THEN [acc EXCEPT !.raised = TRUE]
                     ELSE [acc EXCEPT !.best = FoldOutcome(@, home, away, o)]
         IN  FoldOutcomes(next, home, away, Tail(outcomes))

\* the market loop, lines 72-73
RECURSIVE FoldMarkets(_, _, _, _)
FoldMarkets(acc, home, away, markets) ==
    IF acc.raised \/ markets = <<>> THEN acc
    ELSE LET market == Head(markets)
             next == IF Get(market, "key", NoName) = "h2h"
                     THEN FoldOutcomes(acc, home, away, Get(market, "outcomes", <<>>))
                     ELSE acc
         IN  FoldMarkets(next, home, away, Tail(markets))

\* the bookmaker loop, lines 70-71
RECURSIVE FoldBookmakers(_, _, _, _)
FoldBookmakers(acc, home, away, bookmakers) ==
    IF acc.raised \/ bookmakers = <<>> THEN acc
    ELSE FoldBookmakers(
             FoldMarkets(acc, home, away, Get(Head(bookmakers), "markets", <<>>)),
             home, away, Tail(bookmakers))

\* lines 59-112: [raised, value], value being <<>> for None or <<analysis>>
AnalyzeMatch(m, target) ==
    LET bookmakers == Get(m, "bookmakers", <<>>)
        folded == FoldBookmakers([raised |-> FALSE, best |-> ZeroOdds],
                                 Home(m), Away(m), bookmakers)
    IN  IF bookmakers = <<>> THEN [raised |-> FALSE, value |-> <<>>]
        ELSE IF folded.raised THEN [raised |-> TRUE, value |-> <<>>]
        ELSE [raised |-> FALSE, value |-> Select(m, folded.best, target)]

-----------------------------------------------------------------------------
(* get_matches_with_odds and find_best_bets: the pieces *)

\* a variant without the try/except
GetMatchesUnguarded(response) ==
    IF response.ok
    THEN [raised |-> FALSE, value |-> response.body]
    ELSE [raised |-> TRUE, value |-> <<>>]

\* lines 42-57: the body of a good answer, [] when the request raised
GetMatchesWithOdds(response) ==
    IF response.ok
    THEN [raised |-> FALSE, value |-> response.body]
    ELSE [raised |-> FALSE, value |-> <<>>]

\* a variant without the slice
AllFixtures(ms) == ms

\* matches[:5]
FirstFive(ms) == SubSeq(ms, 1, Min(FixtureCap, Len(ms)))

\* list.sort(key=confidence, reverse=True) keeps equal keys in their order:
\* x goes before the first element of lower confidence
RECURSIVE InsertByConfidence(_, _)
InsertByConfidence(x, s) ==
    IF s = <<>> THEN <<x>>
    ELSE IF x.recommendation.confidence > Head(s).recommendation.confidence
         THEN <<x>> \o s
         ELSE <<Head(s)>> \o InsertByConfidence(x, Tail(s))

\* a variant that sorts ascending and reverses, which reverses the ties
RECURSIVE InsertAscending(_, _)
InsertAscending(x, s) ==
    IF s = <<>> THEN <<x>>
    ELSE IF x.recommendation.confidence < Head(s).recommendation.confidence
         THEN <<x>> \o s
         ELSE <<Head(s)>> \o InsertAscending(x, Tail(s))

RECURSIVE SortAscending(_)
SortAscending(s) ==
    IF s = <<>> THEN <<>>
    ELSE InsertAscending(s[Len(s)], SortAscending(SubSeq(s, 1, Len(s) - 1)))

SortAscendingReversed(s) ==
    LET up == SortAscending(s) IN [i \in 1..Len(s) |-> up[Len(s) + 1 - i]]

RECURSIVE SortByConfidence(_)
SortByConfidence(s) ==
    IF s = <<>> THEN <<>>
    ELSE InsertByConfidence(s[Len(s)], SortByConfidence(SubSeq(s, 1, Len(s) - 1)))

\* lines 121-124 over one league's fixtures; passed lists the fixtures handed
\* to analyze_match, and the loop stops at the first exception
RECURSIVE CollectPicks(_, _, _)
CollectPicks(acc, ms, target) ==
    IF acc.raised \/ ms = <<>> THEN acc
    ELSE LET a == AnalyzeMatch(Head(ms), target)
             next == [raised |-> a.raised,
                      value |-> acc.value \o a.value,
                      passed |-> Append(acc.passed, Head(ms))]
         IN  CollectPicks(next, Tail(ms), target)

\* lines 118-124 for one league, given what the odds API answers
CollectLeague(picks, response, target) ==
    LET got == GetMatchesWithOdds(response)
        start == [raised |-> got.raised, value |-> picks, passed |-> <<>>]
    IN  CollectPicks(start, FirstFive(got.value), target)

\* lines 116-127 on the answers the leagues get, one per league
RECURSIVE CollectLeagues(_, _, _)
CollectLeagues(acc, responses, target) ==
    IF acc.raised \/ responses = <<>> THEN acc
    ELSE CollectLeagues(CollectLeague(acc.value, Head(responses), target),
                        Tail(responses), target)

FindBestBets(responses, target) ==
    LET collected == CollectLeagues([raised |-> FALSE, value |-> <<>>, passed |-> <<>>],
                                    responses, target)
    IN  [raised |-> collected.raised,
         value |-> IF collected.raised THEN <<>> ELSE SortByConfidence(collected.value)]

-----------------------------------------------------------------------------
(* Inputs of find_best_bets *)

LeagueSelections ==
    { <<>>, <<"soccer_epl">>, <<"soccer_epl", "soccer_spain_la_liga">> }

Quote(n, c) == [name |-> n, price |-> Number(c)]

\* two bookmakers; home and draw end in the band, so the pick depends on the target
BothInBand(home, away) ==
    [home_team |-> home, away_team |-> away, commence_time |-> "t1",
     bookmakers |-> <<
       [markets |-> << [key |-> "h2h", outcomes |->
           <<Quote(home, 195), Quote("Draw", 210)>>] >>],
       [markets |-> << [key |-> "h2h", outcomes |->
           <<Quote(home, 200)>>] >>] >>]

\* only the draw is in the band; a spreads market is quoted as well
DrawInBand(home, away) ==
    [home_team |-> home, away_team |-> away, commence_time |-> "t2",
     bookmakers |-> <<
       [markets |-> << [key |-> "spreads", outcomes |-> <<Quote(home, 190)>>],
                       [key |-> "h2h", outcomes |->
           <<Quote(home, 250), Quote("Draw", 210)>>] >>] >>]

\* no price in the band
NoneInBand(home, away) ==
    [home_team |-> home, away_team |-> away, commence_time |-> "t3",
     bookmakers |-> <<
       [markets |-> << [key |-> "h2h", outcomes |->
           <<Quote(home, 150)>>] >>] >>]

\* a price that is not a number
Malformed ==
    [home_team |-> "Wolves", away_team |-> "Spurs", commence_time |-> "t4",
     bookmakers |-> <<
       [markets |-> << [key |-> "h2h", outcomes |->
           <<[name |-> "Wolves", price |-> Text]>>] >>] >>]

\* the sound fixtures a league may list
SoundFixtures(league) ==
    IF league = "soccer_epl"
    THEN {BothInBand("Arsenal", "Chelsea"), DrawInBand("Leeds", "Everton"),
          NoneInBand("Fulham", "Brentford")}
    ELSE {BothInBand("Sevilla", "Betis"), DrawInBand("Getafe", "Osasuna"),
          NoneInBand("Girona", "Alaves")}

\* The answers of the odds API for a league: any sequence of its sound fixtures,
\* or one ended by the malformed fixture (the call does not outlive the first
\* malformed fixture it analyses, so what would follow it is left out).
Batches(league, n) ==
    LET sound(k) == [1..k -> SoundFixtures(league)]
    IN  UNION {sound(k) : k \in 0..n}
          \cup UNION {{Append(b, Malformed) : b \in sound(k - 1)} : k \in 1..n}

\* what makes requests.get or raise_for_status raise
Failures == {"Timeout", "HTTPError"}

RECURSIVE TotalFetched(_)
TotalFetched(responses) ==
    IF responses = <<>> THEN 0
    ELSE Len(Head(responses).body) + TotalFetched(Tail(responses))

InitRank ==
    /\ pc = "league"
    /\ leagues \in LeagueSelections
    /\ target_odds \in Targets
    /\ league_i = 0
    /\ fetched = <<>>
    /\ matches = <<>>
    /\ analyzed = <<>>
    /\ all_picks = <<>>
    /\ result = <<>>
    /\ match = [home_team |-> "Arsenal", away_team |-> "Chelsea", commence_time |-> "t0"]
    /\ quotes = {}
    /\ best_odds = ZeroOdds

AnalyzeVars == <<match, quotes, best_odds>>

\* lines 119-124 for the league at hand, given what the odds API answers:
\* get_matches_with_odds, then the loop over matches[:5]
Iterate(response) ==
    \E c \in {CollectLeague(all_picks, response, target_odds)} :
        /\ fetched' = Append(fetched, response)
        /\ matches' = GetMatchesWithOdds(response).value
        /\ analyzed' = Append(analyzed, c.passed)
        /\ IF c.raised
           THEN /\ pc' = "raised"
                /\ UNCHANGED <<all_picks, league_i>>
           ELSE /\ pc' = "league"
                /\ all_picks' = c.value
                /\ league_i' = league_i + 1
        /\ UNCHANGED <<leagues, target_odds, result, AnalyzeVars>>

\* one iteration of the league loop: the odds API answers with fixtures
LeagueAnswers ==
    /\ pc = "league"
    /\ league_i < Len(leagues)
    /\ \E body \in Batches(leagues[league_i + 1], MaxFetched - TotalFetched(fetched)) :
         Iterate([ok |-> TRUE, error |-> "", body |-> body])

\* one iteration of the league loop: the request times out, fails, or is
\* answered with an error status
LeagueFails ==
    /\ pc = "league"
    /\ league_i < Len(leagues)
    /\ \E e \in Failures :
         Iterate([ok |-> FALSE, error |-> e, body |-> <<>>])

\* lines 126-127: sort in place and return
SortAndReturn ==
    /\ pc = "league"
    /\ league_i = Len(leagues)
    /\ pc' = "done"
    /\ all_picks' = SortByConfidence(all_picks)
    /\ result' = all_picks'
    /\ UNCHANGED <<leagues, target_odds, league_i, fetched, matches, analyzed, AnalyzeVars>>

NextRank ==
    \/ LeagueAnswers
    \/ LeagueFails
    \/ SortAndReturn

SpecRank == InitRank /\ [][NextRank]_vars

-----------------------------------------------------------------------------
(* Either entry point is called *)

Init == InitAnalyze \/ InitRank

Next == NextAnalyze \/ NextRank

Spec == Init /\ [][Next]_vars

-----------------------------------------------------------------------------
(* Properties of analyze_match *)

Slots == {"home", "draw", "away"}

AbsDiff(a, b) == IF a > b THEN a - b ELSE b - a

\* the analysis analyze_match returned, when it returned one
Returned == pc = "returned" /\ result # <<>>

\* C1: an analysis that analyze_match returns recommends a price in [1.80, 2.20],
\* both ends included, and analyze_match returns None whenever all three best
\* prices lie outside that band.
BandInvariant ==
    pc = "returned" =>
        /\ result # <<>> =>
             /\ 180 <= result[1].recommendation.odds
             /\ result[1].recommendation.odds <= 220
        /\ (\A s \in Slots : best_odds[s] < 180 \/ best_odds[s] > 220) => result = <<>>

\* a price of exactly 2.20 is recommended while another best price is 2.21
BandWitness ==
    /\ Returned
    /\ result[1].recommendation.odds = 220
    /\ \E s \in Slots : best_odds[s] = 221

\* C4: when some best price is in the band, the recommendation is an in-band
\* outcome at least as close to the target as every other in-band outcome of the
\* fixture; when none is in the band, None is returned.
ClosestToTarget ==
    pc = "returned" =>
        LET band == {s \in Slots : 180 <= best_odds[s] /\ best_odds[s] <= 220}
        IN  IF band = {} THEN result = <<>>
            ELSE /\ result # <<>>
                 /\ \E s \in band :
                      /\ result[1].recommendation.odds = best_odds[s]
                      /\ result[1].recommendation.pick = Upper(s)
                      /\ \A r \in band :
                           AbsDiff(best_odds[s], target_odds)
                             <= AbsDiff(best_odds[r], target_odds)

\* the home price is in the band and a strictly closer outcome is recommended
ClosestWitness ==
    /\ Returned
    /\ 180 <= best_odds["home"] /\ best_odds["home"] <= 220
    /\ result[1].recommendation.pick # "HOME"
    /\ AbsDiff(result[1].recommendation.odds, target_odds)
         < AbsDiff(best_odds["home"], target_odds)

\* C5: the confidence of every pick is 50, plus 10 if the price is below 2.05,
\* plus 5 if the outcome is HOME, capped at 85, hence between 50 and 85.
ConfidenceBounds ==
    \A i \in DOMAIN result :
        LET rec == result[i].recommendation
            sum == 50 + (IF rec.odds < 205 THEN 10 ELSE 0)
                      + (IF rec.pick = "HOME" THEN 5 ELSE 0)
        IN  /\ rec.confidence = IF sum > 85 THEN 85 ELSE sum
            /\ 50 <= rec.confidence /\ rec.confidence <= 85

\* a draw at exactly 2.05 gets no bonus
ConfidenceWitness ==
    /\ Returned
    /\ result[1].recommendation.pick = "DRAW"
    /\ result[1].recommendation.odds = 205
    /\ result[1].recommendation.confidence = 50

\* C6: while the quotes of a fixture are folded in, no slot of best_odds decreases
\* from one step to the next.
MonotonicReduction == [][\A s \in Slots : best_odds'[s] >= best_odds[s]]_vars

\* the price of a quote read for a slot, and the slot the claims give it
QuotedPrice(line) ==
    IF "price" \in DOMAIN line.outcome THEN line.outcome.price.value ELSE 0

HomeName == IF "home_team" \in DOMAIN match THEN match.home_team ELSE "Unknown"
AwayName == IF "away_team" \in DOMAIN match THEN match.away_team ELSE "Unknown"

Attributed(s) ==
    {line \in quotes :
        /\ line.key = "h2h"
        /\ s = IF line.outcome.name = HomeName THEN "home"
               ELSE IF line.outcome.name = AwayName THEN "away" ELSE "draw"}

\* a slot holds a price above a lower quote that was folded into it
MonotonicWitness ==
    /\ pc = "outcomes"
    /\ \E s \in Slots : \E line \in Attributed(s) :
         0 < QuotedPrice(line) /\ QuotedPrice(line) < best_odds[s]

\* C7: an absent or non-numeric price never makes the analysis raise.
NeverRaises == pc # "raised"

\* C10: every outcome line of an h2h market goes to exactly one slot (home if its
\* name is the home team's, else away if it is the away team's, else draw); each
\* slot of best_odds, and of the analysis returned, is the highest price among
\* the lines of that slot, or 0 without any; lines of other markets count for
\* nothing.
ReducerResult ==
    pc # "raised" =>
        /\ \A line \in quotes : line.key = "h2h" =>
             Cardinality({s \in Slots : line \in Attributed(s)}) = 1
        /\ \A s \in Slots :
             /\ \A line \in Attributed(s) : QuotedPrice(line) <= best_odds[s]
             /\ \/ best_odds[s] = 0
                \/ \E line \in Attributed(s) : QuotedPrice(line) = best_odds[s]
        /\ Returned => result[1].odds = best_odds

\* an analysis is returned for a fixture without home_team: the quote named
\* Arsenal counted as a draw, and a quote of another market was ignored
ReducerWitness ==
    /\ Returned
    /\ "home_team" \notin DOMAIN match
    /\ \E line \in quotes :
         line.key = "h2h" /\ line.outcome.name = "Arsenal"
           /\ QuotedPrice(line) = result[1].odds["draw"] /\ QuotedPrice(line) > 0
    /\ \E line \in quotes : line.key # "h2h"

-----------------------------------------------------------------------------
(* Properties of find_best_bets *)

ConfidenceOf(a) == a.recommendation.confidence

RECURSIVE Flatten(_)
Flatten(ss) == IF ss = <<>> THEN <<>> ELSE Head(ss) \o Flatten(Tail(ss))

RECURSIVE Analyses(_)
Analyses(ms) ==
    IF ms = <<>> THEN <<>>
    ELSE AnalyzeMatch(Head(ms), target_odds).value \o Analyses(Tail(ms))

\* the analyses in the order of the fan-out: league by league, fixture by fixture
FanOut == Analyses(Flatten(analyzed))

WithConfidence(s, c) ==
    LET Has(a) == ConfidenceOf(a) = c IN SelectSeq(s, Has)

\* C2: the list find_best_bets returns is in descending order of confidence, and
\* analyses of equal confidence keep the order in which the fan-out collected them.
StableRanking ==
    pc = "done" =>
        \E fan \in {FanOut} :
            /\ Len(result) = Len(fan)
            /\ \A i \in 1..(Len(result) - 1) :
                 ConfidenceOf(result[i]) >= ConfidenceOf(result[i + 1])
            /\ \A c \in {ConfidenceOf(fan[i]) : i \in DOMAIN fan} :
                 WithConfidence(result, c) = WithConfidence(fan, c)

\* a later fixture of higher confidence moved ahead, while two different fixtures
\* of equal confidence, one of each league, kept the order of the leagues
RankingWitness ==
    /\ pc = "done"
    /\ Len(result) = 3
    /\ result # FanOut
    /\ ConfidenceOf(result[2]) = ConfidenceOf(result[3])
    /\ result[2] # result[3]
    /\ result[2] = FanOut[1]
    /\ result[3] = FanOut[3]

Body(k) == fetched[k].body

CapOf(n) == IF n > 5 THEN 5 ELSE n

RECURSIVE SumOfCaps(_)
SumOfCaps(k) == IF k = 0 THEN 0 ELSE CapOf(Len(Body(k))) + SumOfCaps(k - 1)

\* C3: of each league's answer only the first five fixtures are handed to
\* analyze_match, all of them when there are fewer, and only they can be in the
\* list returned.
CapEnforcement ==
    /\ \A k \in DOMAIN analyzed :
         /\ Len(analyzed[k]) <= 5
         /\ Len(analyzed[k]) <= Len(Body(k))
         /\ \A j \in DOMAIN analyzed[k] : analyzed[k][j] = Body(k)[j]
         /\ k <= league_i => Len(analyzed[k]) = CapOf(Len(Body(k)))
    /\ pc = "done" =>
         /\ Len(result) <= SumOfCaps(Len(fetched))
         /\ \E firsts \in {UNION {{AnalyzeMatch(Body(k)[j], target_odds).value :
                                     j \in 1..CapOf(Len(Body(k)))} : k \in DOMAIN fetched}} :
                \A i \in DOMAIN result : <<result[i]>> \in firsts

\* a league answered six fixtures that all have a price in the band, and five
\* analyses were returned
CapWitness ==
    /\ pc = "done"
    /\ Len(fetched) = 1
    /\ Len(Body(1)) = 6
    /\ \A j \in 1..6 : AnalyzeMatch(Body(1)[j], target_odds).value # <<>>
    /\ Len(analyzed[1]) = 5
    /\ Len(result) = 5

\* the answers that are neither failures nor empty
Answered ==
    LET Good(r) == r.ok /\ r.body # <<>> IN SelectSeq(fetched, Good)

\* C8: a league whose fetch fails or answers nothing contributes no fixture, the
\* remaining leagues are still processed, and the call ends as it would have
\* without that league.
SourceFailureIsolation ==
    /\ \A k \in DOMAIN analyzed : ~fetched[k].ok => analyzed[k] = <<>>
    /\ fetched # <<>> /\ ~fetched[Len(fetched)].ok => matches = <<>>
    /\ pc = "done" =>
         /\ Len(fetched) = Len(leagues)
         /\ FindBestBets(Answered, target_odds)
              = [raised |-> FALSE, value |-> result]
    /\ pc = "raised" /\ fetched # <<>> => FindBestBets(Answered, target_odds).raised

\* the first league's fetch failed and the second league's fixtures are returned
IsolationWitness ==
    /\ pc = "done"
    /\ Len(fetched) = 2
    /\ ~fetched[1].ok
    /\ fetched[2].ok
    /\ result # <<>>

\* the fixtures of a list of analyses
FixturesIn(s) == {<<s[i].match, s[i].odds>> : i \in DOMAIN s}

ComparedTargets == Targets \cup {150, 300}

\* C9: whether analyze_match returns None does not depend on the target, and for
\* the same answers of the odds API find_best_bets returns the same fixtures for
\* every target.
TargetIndependence ==
    /\ pc = "returned" =>
         \A t \in ComparedTargets :
             (result = <<>>) <=> (Select(match, best_odds, t) = <<>>)
    /\ pc = "done" =>
         \A t \in ComparedTargets \ {target_odds} :
             \E other \in {FindBestBets(fetched, t)} :
                 /\ ~other.raised
                 /\ Len(other.value) = Len(result)
                 /\ FixturesIn(other.value) = FixturesIn(result)

\* another target gives another list of the same fixtures, and a fetched fixture
\* is in neither
TargetWitness ==
    /\ pc = "done"
    /\ Len(result) = 2
    /\ Len(fetched) = 1
    /\ Len(Body(1)) = 3
    /\ \E t \in ComparedTargets :
         /\ FindBestBets(fetched, t).value # result
         /\ FixturesIn(FindBestBets(fetched, t).value) = FixturesIn(result)

====
